---- MODULE Spec2Model ----
(***************************************************************************)
(* A model of wamu-rs: the signature check of wamu-core (crypto.rs), the   *)
(* augmented signing state machine of wamu-cggmp (sign.rs) and the share   *)
(* recovery with quorum state machine (share_recovery_quorum.rs).          *)
(*                                                                         *)
(* Byte strings are sequences of naturals.  Identity key pairs are         *)
(* numbered 1..Outsider; the bytes of a verifying key are the number of    *)
(* the key pair whose SEC1 encoding they are, or 0 for bytes that are no   *)
(* SEC1 point.  The bytes of a signature say whether they are well-formed  *)
(* DER and, if so, which key pair produced the signature over which bytes  *)
(* (signer 0: a well-formed signature no key pair produced).               *)
(***************************************************************************)
EXTENDS Naturals, Integers, Sequences, FiniteSets, TLC

\* ------------------------------------------------------------------ bounds

\* Number of parties of a ceremony (n_parties).
NParties == 3

\* Number of distinct messages to be signed.
NMessages == 2

\* ------------------------------------------------------------ Option<T>

None == <<>>

Some(x) == <<x>>

IsSome(o) == o /= <<>>

Unwrap(o) == o[1]

\* ------------------------------------------------------ crypto.rs: types

SignatureAlgorithm == {"ECDSA", "EdDSA"}

EllipticCurve == {"Secp256k1", "Curve25519"}

MessageDigest == {"SHA256", "Keccak256"}

KeyEncoding == {"SEC1", "EIP55"}

SignatureEncoding == {"DER", "RLP"}

Parties == 1..NParties

\* The key pair of party i is key pair i; one more key pair belongs to nobody.
Outsider == NParties + 1

KeyIds == 1..Outsider

Messages == {<<m>> : m \in 1..NMessages}

VerifyingKey(key, algo, curve, enc) ==
    [key |-> key, algo |-> algo, curve |-> curve, enc |-> enc]

Signature(sig, algo, curve, hash, enc) ==
    [sig |-> sig, algo |-> algo, curve |-> curve, hash |-> hash, enc |-> enc]

\* Signature bytes: not DER at all, or the DER encoding of a signature.
MalformedSig == [der |-> FALSE, signer |-> 0, payload |-> <<>>]

DerSig(signer, payload) == [der |-> TRUE, signer |-> signer, payload |-> payload]

\* k256::ecdsa::VerifyingKey::from_sec1_bytes succeeds.
from_sec1_bytes_ok(key) == key /= 0

\* k256::ecdsa::Signature::from_der succeeds.
from_der_ok(sig) == sig.der

\* k256's Verifier::verify: the signature was made by the key's pair over msg.
k256_verify(key, msg, sig) == sig.signer = key /\ sig.payload = msg

\* --------------------------------------------------------------- results

Ok == [tag |-> "Ok", crypto |-> "", bad_actors |-> None]

\* Error::Core(wamu_core::Error::Crypto(e)): wamu_core::Error has no bad_actors.
CryptoErr(e) == [tag |-> "Crypto", crypto |-> e, bad_actors |-> None]

\* Error::Core(wamu_core::Error::UnauthorizedParty): a unit variant.
UnauthorizedParty == [tag |-> "UnauthorizedParty", crypto |-> "", bad_actors |-> None]

\* Error::MissingParams { bad_actors }.
MissingParams(bad_actors) ==
    [tag |-> "MissingParams", crypto |-> "", bad_actors |-> Some(bad_actors)]

\* Error::StateMachine(e): an error of the wrapped state machine.
StateMachineErr == [tag |-> "StateMachine", crypto |-> "", bad_actors |-> None]

IsErr(r) == r.tag /= "Ok"

\* ------------------------------------------- crypto.rs: verify_signature

\* verify_signature that compares the algorithms of key and signature only.
verify_signature_algorithm_only(verifying_key, msg, signature) ==
    IF verifying_key.algo /= signature.algo
    THEN CryptoErr("SchemeMismatch")
    ELSE IF <<verifying_key.algo, verifying_key.curve>> = <<"ECDSA", "Secp256k1">>
    THEN IF signature.hash = "SHA256"
         THEN IF <<verifying_key.enc, signature.enc>> = <<"SEC1", "DER">>
              THEN IF ~from_der_ok(signature.sig)
                   THEN CryptoErr("InvalidSignature")
                   ELSE IF ~from_sec1_bytes_ok(verifying_key.key)
                   THEN CryptoErr("InvalidVerifyingKey")
                   ELSE IF k256_verify(verifying_key.key, msg, signature.sig)
                   THEN Ok
                   ELSE CryptoErr("InvalidSignature")
              ELSE CryptoErr("UnsupportedEncoding")
         ELSE CryptoErr("UnsupportedDigest")
    ELSE CryptoErr("UnsupportedScheme")

\* verify_signature that does not look at the encoding of the verifying key.
verify_signature_any_key_encoding(verifying_key, msg, signature) ==
    IF <<verifying_key.algo, verifying_key.curve>> /= <<signature.algo, signature.curve>>
    THEN CryptoErr("SchemeMismatch")
    ELSE IF <<verifying_key.algo, verifying_key.curve>> = <<"ECDSA", "Secp256k1">>
    THEN IF signature.hash = "SHA256"
         THEN IF signature.enc = "DER"
              THEN IF ~from_der_ok(signature.sig)
                   THEN CryptoErr("InvalidSignature")
                   ELSE IF ~from_sec1_bytes_ok(verifying_key.key)
                   THEN CryptoErr("InvalidVerifyingKey")
                   ELSE IF k256_verify(verifying_key.key, msg, signature.sig)
                   THEN Ok
                   ELSE CryptoErr("InvalidSignature")
              ELSE CryptoErr("UnsupportedEncoding")
         ELSE CryptoErr("UnsupportedDigest")
    ELSE CryptoErr("UnsupportedScheme")

\* verify_signature that reports an invalid verifying key before a malformed
\* signature.
verify_signature_key_first(verifying_key, msg, signature) ==
    IF <<verifying_key.algo, verifying_key.curve>> /= <<signature.algo, signature.curve>>
    THEN CryptoErr("SchemeMismatch")
    ELSE IF <<verifying_key.algo, verifying_key.curve>> = <<"ECDSA", "Secp256k1">>
    THEN IF signature.hash = "SHA256"
         THEN IF <<verifying_key.enc, signature.enc>> = <<"SEC1", "DER">>
              THEN IF ~from_sec1_bytes_ok(verifying_key.key)
                   THEN CryptoErr("InvalidVerifyingKey")
                   ELSE IF ~from_der_ok(signature.sig)
                   THEN CryptoErr("InvalidSignature")
                   ELSE IF k256_verify(verifying_key.key, msg, signature.sig)
                   THEN Ok
                   ELSE CryptoErr("InvalidSignature")
              ELSE CryptoErr("UnsupportedEncoding")
         ELSE CryptoErr("UnsupportedDigest")
    ELSE CryptoErr("UnsupportedScheme")

verify_signature(verifying_key, msg, signature) ==
    IF <<verifying_key.algo, verifying_key.curve>> /= <<signature.algo, signature.curve>>
    THEN CryptoErr("SchemeMismatch")
    ELSE IF <<verifying_key.algo, verifying_key.curve>> = <<"ECDSA", "Secp256k1">>
    THEN IF signature.hash = "SHA256"
         THEN IF <<verifying_key.enc, signature.enc>> = <<"SEC1", "DER">>
              THEN IF ~from_der_ok(signature.sig)
                   THEN CryptoErr("InvalidSignature")
                   ELSE IF ~from_sec1_bytes_ok(verifying_key.key)
                   THEN CryptoErr("InvalidVerifyingKey")
                   ELSE IF k256_verify(verifying_key.key, msg, signature.sig)
                   THEN Ok
                   ELSE CryptoErr("InvalidSignature")
              ELSE CryptoErr("UnsupportedEncoding")
         ELSE CryptoErr("UnsupportedDigest")
    ELSE CryptoErr("UnsupportedScheme")

\* ---------------------------------------------------- identity provider

\* The bytes "msg-prefix" that wamu_core::utils::prefix_message_bytes puts
\* before a message.
MsgPrefix == <<0>>

prefix_message_bytes(msg) == MsgPrefix \o msg

\* IdentityProvider::verifying_key of the provider holding key pair id.
verifying_key(id) == VerifyingKey(id, "ECDSA", "Secp256k1", "SEC1")

\* IdentityProvider::sign of the provider holding key pair id.
sign(id, msg) == Signature(DerSig(id, msg), "ECDSA", "Secp256k1", "SHA256", "DER")

IdentityAuthParams(key, signature) ==
    [verifying_key |-> key, verifying_signature |-> signature]

\* ------------------------------------------------ sign.rs: the messages

\* M::Round1(_) and M::Round2(_) of the wrapped Signing state machine; data
\* stands for the broadcast content, which the augmentation never reads.
Base(round, data) == [round |-> round, data |-> data]

\* Msg<AugmentedType<MessageBody, IdentityAuthParams>>, always a broadcast.
Msg(sender, base, extra) ==
    [sender |-> sender, body |-> [base |-> base, extra |-> extra]]

\* ------------------------------------ sign.rs: AugmentedSigning's methods

Contains(list, x) == \E i \in DOMAIN list : list[i] = x

\* Mutants of pre_handle_incoming: without the membership check, naming the
\* receiver instead of the sender, verifying over the unprefixed message, and
\* accepting a Round1 message without parameters.
pre_handle_incoming_no_membership(self, msg) ==
    IF msg.body.base.round = "Round1"
    THEN IF IsSome(msg.body.extra)
         THEN verify_signature(Unwrap(msg.body.extra).verifying_key,
                               prefix_message_bytes(self.message),
                               Unwrap(msg.body.extra).verifying_signature)
         ELSE MissingParams(<<msg.sender>>)
    ELSE Ok

pre_handle_incoming_names_receiver(self, msg) ==
    IF msg.body.base.round = "Round1"
    THEN IF IsSome(msg.body.extra)
         THEN IF ~Contains(self.verified_parties, Unwrap(msg.body.extra).verifying_key)
              THEN UnauthorizedParty
              ELSE verify_signature(Unwrap(msg.body.extra).verifying_key,
                                    prefix_message_bytes(self.message),
                                    Unwrap(msg.body.extra).verifying_signature)
         ELSE MissingParams(<<self.state_machine.idx>>)
    ELSE Ok

pre_handle_incoming_unprefixed(self, msg) ==
    IF msg.body.base.round = "Round1"
    THEN IF IsSome(msg.body.extra)
         THEN IF ~Contains(self.verified_parties, Unwrap(msg.body.extra).verifying_key)
              THEN UnauthorizedParty
              ELSE verify_signature(Unwrap(msg.body.extra).verifying_key,
                                    self.message,
                                    Unwrap(msg.body.extra).verifying_signature)
         ELSE MissingParams(<<msg.sender>>)
    ELSE Ok

pre_handle_incoming_accepts_missing(self, msg) ==
    IF msg.body.base.round = "Round1"
    THEN IF IsSome(msg.body.extra)
         THEN IF ~Contains(self.verified_parties, Unwrap(msg.body.extra).verifying_key)
              THEN UnauthorizedParty
              ELSE verify_signature(Unwrap(msg.body.extra).verifying_key,
                                    prefix_message_bytes(self.message),
                                    Unwrap(msg.body.extra).verifying_signature)
         ELSE Ok
    ELSE Ok

\* pre_handle_incoming that accepts Round1 parameters only while the wrapped
\* machine has stored no Round1 message yet.
pre_handle_incoming_first_sender_only(self, msg) ==
    IF msg.body.base.round /= "Round1" THEN Ok
    ELSE IF ~IsSome(msg.body.extra)
    THEN MissingParams(<<msg.sender>>)
    ELSE IF \/ ~Contains(self.verified_parties, Unwrap(msg.body.extra).verifying_key)
            \/ self.state_machine.msgs1 \notin {None, Some({})}
    THEN UnauthorizedParty
    ELSE verify_signature(Unwrap(msg.body.extra).verifying_key,
                          prefix_message_bytes(self.message),
                          Unwrap(msg.body.extra).verifying_signature)

\* pre_handle_incoming that verifies the signature before it looks the key
\* up in verified_parties.
pre_handle_incoming_signature_first(self, msg) ==
    IF msg.body.base.round /= "Round1" THEN Ok
    ELSE IF ~IsSome(msg.body.extra)
    THEN MissingParams(<<msg.sender>>)
    ELSE LET params == Unwrap(msg.body.extra)
             verified == verify_signature(params.verifying_key,
                                          prefix_message_bytes(self.message),
                                          params.verifying_signature)
         IN  IF IsErr(verified) THEN verified
             ELSE IF ~Contains(self.verified_parties, params.verifying_key)
             THEN UnauthorizedParty
             ELSE Ok

\* pre_handle_incoming that expects and verifies the additional parameters
\* in every round.
pre_handle_incoming_every_round(self, msg) ==
    IF IsSome(msg.body.extra)
    THEN LET params == Unwrap(msg.body.extra)
         IN  IF ~Contains(self.verified_parties, params.verifying_key)
             THEN UnauthorizedParty
             ELSE verify_signature(params.verifying_key,
                                   prefix_message_bytes(self.message),
                                   params.verifying_signature)
    ELSE MissingParams(<<msg.sender>>)

\* pre_handle_incoming that requires the carried key to be the key that
\* verified_parties lists at the sender's index.
pre_handle_incoming_key_at_sender_index(self, msg) ==
    IF msg.body.base.round /= "Round1" THEN Ok
    ELSE IF ~IsSome(msg.body.extra)
    THEN MissingParams(<<msg.sender>>)
    ELSE IF \/ msg.sender \notin DOMAIN self.verified_parties
            \/ self.verified_parties[msg.sender] /= Unwrap(msg.body.extra).verifying_key
    THEN UnauthorizedParty
    ELSE verify_signature(Unwrap(msg.body.extra).verifying_key,
                          prefix_message_bytes(self.message),
                          Unwrap(msg.body.extra).verifying_signature)

\* `self` is the AugmentedSigning, read only: verified_parties and message.
pre_handle_incoming(self, msg) ==
    IF msg.body.base.round = "Round1"
    THEN IF IsSome(msg.body.extra)
         THEN LET params == Unwrap(msg.body.extra)
              IN  IF ~Contains(self.verified_parties, params.verifying_key)
                  THEN UnauthorizedParty
                  ELSE verify_signature(params.verifying_key,
                                        prefix_message_bytes(self.message),
                                        params.verifying_signature)
         ELSE MissingParams(<<msg.sender>>)
    ELSE Ok

\* Mutant of augment_outgoing_message: signs the message without the prefix.
augment_outgoing_message_unprefixed(self, msg_body) ==
    IF msg_body.round = "Round1"
    THEN Some(IdentityAuthParams(
                  verifying_key(self.identity_provider),
                  sign(self.identity_provider, self.message)))
    ELSE None

\* augment_outgoing_message that puts the prefix after the message.
augment_outgoing_message_suffixed(self, msg_body) ==
    IF msg_body.round = "Round1"
    THEN Some(IdentityAuthParams(
                  verifying_key(self.identity_provider),
                  sign(self.identity_provider, self.message \o MsgPrefix)))
    ELSE None

\* `self` is the AugmentedSigning, read only: identity_provider and message.
augment_outgoing_message(self, msg_body) ==
    IF msg_body.round = "Round1"
    THEN Some(IdentityAuthParams(
                  verifying_key(self.identity_provider),
                  sign(self.identity_provider, prefix_message_bytes(self.message))))
    ELSE None

\* --------------------------------------- the wrapped Signing state machine

\* cggmp-threshold-ecdsa's Signing after Signing::new: it has broadcast its
\* Round1 message and waits for the Round1 message of every other party.
Signing_new(idx) ==
    [idx |-> idx, round |-> 1, msgs1 |-> Some({}), msgs2 |-> Some({}),
     message_queue |-> <<Msg(idx, Base("Round1", idx), None)>>,
     output |-> None]

\* Signing::handle_incoming: stores the message of its round, once per sender.
Signing_handle_incoming(sm, msg) ==
    LET store == IF msg.body.base.round = "Round1" THEN sm.msgs1 ELSE sm.msgs2
    IN  IF ~IsSome(store) \/ msg.sender = sm.idx \/ msg.sender \in Unwrap(store)
        THEN [res |-> StateMachineErr, sm |-> sm]
        ELSE [res |-> Ok,
              sm  |-> IF msg.body.base.round = "Round1"
                      THEN [sm EXCEPT !.msgs1 = Some(Unwrap(store) \cup {msg.sender})]
                      ELSE [sm EXCEPT !.msgs2 = Some(Unwrap(store) \cup {msg.sender})]]

Signing_wants_to_proceed(sm) ==
    \/ sm.round = 1 /\ sm.msgs1 = Some(Parties \ {sm.idx})
    \/ sm.round = 2 /\ sm.msgs2 = Some(Parties \ {sm.idx})

\* Signing::proceed: Round1 -> Round2 broadcasts the output, Round2 -> Final.
Signing_proceed(sm) ==
    IF sm.round = 1
    THEN [sm EXCEPT !.round = 2, !.msgs1 = None,
                    !.message_queue = Append(@, Msg(sm.idx, Base("Round2", sm.idx), None))]
    ELSE [sm EXCEPT !.round = 3, !.msgs2 = None, !.output = Some("signature")]

Signing_is_finished(sm) == sm.round = 3

\* ------------------------------------------------ AugmentedSigning: state

VARIABLES
    aug_signing,   \* the AugmentedSigning of one party (sign.rs, struct fields)
    last,          \* history: the last handle_incoming call and what it did
    failed,        \* history: a handle_incoming call has failed validation
    share_recovery_quorum, \* the ShareRecoveryQuorum of every party of a ceremony
    call           \* a call of a function: its arguments and, once made, its result

vars == <<aug_signing, last, failed, share_recovery_quorum, call>>

\* The specifications of the state machines make no call of a lone function.
NoCall == <<>>

\* The signing specifications leave the share recovery machines aside.
NoRecovery == <<>>

\* AugmentedStateMachine::update_augmented_message_queue: moves the messages
\* of the wrapped machine to the augmented queue, augmenting each.
RECURSIVE augment_all(_, _)
augment_all(self, queue) ==
    IF queue = <<>> THEN <<>>
    ELSE <<Msg(Head(queue).sender, Head(queue).body.base,
               augment_outgoing_message(self, Head(queue).body.base))>>
         \o augment_all(self, Tail(queue))

update_augmented_message_queue(self) ==
    [self EXCEPT
        !.message_queue = @ \o augment_all(self, self.state_machine.message_queue),
        !.state_machine.message_queue = <<>>]

\* AugmentedSigning::new, after share reconstruction and hashing succeeded.
AugmentedSigning_new(idx, identity_provider, verified_parties, message) ==
    update_augmented_message_queue(
        [state_machine     |-> Signing_new(idx),
         message_queue     |-> <<>>,
         identity_provider |-> identity_provider,
         verified_parties  |-> verified_parties,
         message           |-> message])

\* The lists of verifying keys a party may be configured with: the keys of
\* the parties, or those with the last slot holding another key.
HonestParties == [i \in Parties |-> verifying_key(i)]

VerifiedPartiesChoices ==
    {HonestParties, [HonestParties EXCEPT ![NParties] = verifying_key(Outsider)]}

\* ------------------------------------------- the messages that may arrive

\* What an honest party with key pair id and message m attaches to Round1.
HonestParams(id, m) ==
    IdentityAuthParams(verifying_key(id), sign(id, prefix_message_bytes(m)))

\* Parameters a party may attach: honest ones for any message to be signed,
\* honest ones of the outsider, and forgeries under the party's own key.
CeremonyParams(sender) ==
    {HonestParams(sender, m) : m \in Messages}
    \cup {HonestParams(Outsider, <<1>>),
          IdentityAuthParams(verifying_key(sender),
                             sign(Outsider, prefix_message_bytes(<<1>>))),
          IdentityAuthParams(verifying_key(sender),
                             Signature(DerSig(sender, prefix_message_bytes(<<1>>)),
                                       "ECDSA", "Secp256k1", "Keccak256", "DER"))}

CeremonyMsgs(self) ==
    UNION {{Msg(sender, Base(round, sender), extra) :
                round \in {"Round1", "Round2"},
                extra \in {None} \cup {Some(p) : p \in CeremonyParams(sender)}} :
           sender \in Parties \ {self.state_machine.idx}}

\* ----------------------------------------------- AugmentedSigning: actions

Call(msg, res, handed) == Some([msg |-> msg, res |-> res, handed |-> handed])

InitSign ==
    /\ \E idx \in {1, NParties}, message \in Messages,
          verified_parties \in VerifiedPartiesChoices :
          aug_signing = AugmentedSigning_new(idx, idx, verified_parties, message)
    /\ last = None
    /\ failed = FALSE
    /\ share_recovery_quorum = NoRecovery
    /\ call = NoCall

\* StateMachine::handle_incoming of the augmented machine: validation by
\* pre_handle_incoming first, then the wrapped machine gets the base message.
handle_incoming(self, msg) ==
    LET pre == pre_handle_incoming(self, msg)
        got == Signing_handle_incoming(self.state_machine,
                                       Msg(msg.sender, msg.body.base, None))
    IN  IF IsErr(pre)
        THEN [res |-> pre, handed |-> FALSE, self |-> self]
        ELSE [res |-> got.res, handed |-> TRUE,
              self |-> update_augmented_message_queue(
                           [self EXCEPT !.state_machine = got.sm])]

\* A call of handle_incoming on the party's machine.
HandleIncoming(msg) ==
    LET done == handle_incoming(aug_signing, msg)
    IN  /\ last' = Call(msg, done.res, done.handed)
        /\ failed' = IF done.handed THEN failed ELSE TRUE
        /\ aug_signing' = done.self
        /\ UNCHANGED <<share_recovery_quorum, call>>

\* StateMachine::proceed of the augmented machine.
Proceed ==
    /\ Signing_wants_to_proceed(aug_signing.state_machine)
    /\ aug_signing' = update_augmented_message_queue(
           [aug_signing EXCEPT !.state_machine = Signing_proceed(@)])
    /\ UNCHANGED <<last, failed, share_recovery_quorum, call>>

\* The caller takes the first message off message_queue to send it.
TakeOutgoing ==
    /\ aug_signing.message_queue /= <<>>
    /\ aug_signing' = [aug_signing EXCEPT !.message_queue = Tail(@)]
    /\ UNCHANGED <<last, failed, share_recovery_quorum, call>>

NextSign ==
    \/ \E msg \in CeremonyMsgs(aug_signing) : HandleIncoming(msg)
    \/ Proceed
    \/ TakeOutgoing

SpecSign == InitSign /\ [][NextSign]_vars

\* ------------------------------- pre_handle_incoming on arbitrary messages

\* Verifying keys and signatures of every kind verify_signature tells apart.
KeyShapes ==
    {<<"ECDSA", "Secp256k1", "SEC1">>, <<"EdDSA", "Curve25519", "SEC1">>,
     <<"ECDSA", "Curve25519", "SEC1">>, <<"ECDSA", "Secp256k1", "EIP55">>}

SigShapes ==
    {<<"ECDSA", "Secp256k1", "SHA256", "DER">>, <<"ECDSA", "Secp256k1", "Keccak256", "DER">>,
     <<"ECDSA", "Secp256k1", "SHA256", "RLP">>, <<"EdDSA", "Curve25519", "SHA256", "DER">>,
     <<"ECDSA", "Curve25519", "SHA256", "DER">>}

Payloads == Messages \cup {prefix_message_bytes(m) : m \in Messages}

AnyKeys == {VerifyingKey(k, sh[1], sh[2], sh[3]) : k \in {0, 1, Outsider}, sh \in KeyShapes}

AnySigBytes == {MalformedSig} \cup {DerSig(k, pl) : k \in {0, 1, Outsider}, pl \in Payloads}

AnySigs == {Signature(b, sh[1], sh[2], sh[3], sh[4]) : b \in AnySigBytes, sh \in SigShapes}

AnyMsgs ==
    {Msg(sender, Base(round, sender), extra) :
        sender \in Parties,
        round \in {"Round1", "Round2"},
        extra \in {None} \cup {Some(IdentityAuthParams(k, sg)) : k \in AnyKeys, sg \in AnySigs}}

\* Lists of verified parties that also hold keys verify_signature rejects.
AnyVerifiedParties ==
    VerifiedPartiesChoices
    \cup {[HonestParties EXCEPT ![NParties] = k] :
            k \in {VerifyingKey(Outsider, "EdDSA", "Curve25519", "SEC1"),
                   VerifyingKey(Outsider, "ECDSA", "Secp256k1", "EIP55"),
                   VerifyingKey(0, "ECDSA", "Secp256k1", "SEC1")}}

InitPreHandle ==
    /\ \E message \in Messages, verified_parties \in AnyVerifiedParties :
          aug_signing = AugmentedSigning_new(1, 1, verified_parties, message)
    /\ last = None
    /\ failed = FALSE
    /\ share_recovery_quorum = NoRecovery
    /\ call = NoCall

\* One call of pre_handle_incoming, on any message.
PreHandleIncoming(msg) ==
    /\ last = None
    /\ last' = Call(msg, pre_handle_incoming(aug_signing, msg), FALSE)
    /\ UNCHANGED <<aug_signing, failed, share_recovery_quorum, call>>

NextPreHandle == \E msg \in AnyMsgs : PreHandleIncoming(msg)

SpecPreHandle == InitPreHandle /\ [][NextPreHandle]_vars

\* ------------------------------------ share_recovery_quorum.rs: the data

\* const SHARE_RECOVERY_QUORUM, the purpose tag of the identity authentication.
SHARE_RECOVERY_QUORUM == <<"share-recovery-quorum">>

\* The threshold of the wallet (quorum size = threshold + 1); 2 of 4 in
\* tests::share_recovery_quorum_works.
threshold == NParties - 2

\* The least value of the scaled-down order of the scalars.
MinOrder == 7

IsPrime(n) == n > 1 /\ \A d \in 2..(n - 1) : n % d /= 0

\* The order q of the scalars, a prime, scaled down to the least prime that
\* is not below MinOrder.
Secp256k1Order ==
    CHOOSE q \in MinOrder..(2 * MinOrder) :
        IsPrime(q) /\ \A smaller \in MinOrder..(q - 1) : ~IsPrime(smaller)

\* The scalars modulo q, the values random_scalar draws from.
Scalars == 0..(Secp256k1Order - 1)

\* Point::generator() * scalar: a point of the curve, named by its discrete
\* logarithm.
Point(scalar) == <<"G", scalar % Secp256k1Order>>

\* The polynomials of degree threshold that key generation shares the secret
\* key with: poly[1] is the secret key, poly[k + 1] the coefficient of z^k.
Polynomials == [1..(threshold + 1) -> Scalars]

\* The value of a polynomial at z (mod q): the secret share of party z.
evaluate(poly, z) ==
    LET horner[k \in 1..(Len(poly) + 1)] ==
            IF k > Len(poly) THEN 0
            ELSE (poly[k] + z * horner[k + 1]) % Secp256k1Order
    IN  horner[1]

\* The inverse of a non-zero scalar modulo q.
invert(scalar) ==
    CHOOSE inverse \in Scalars : (scalar * inverse) % Secp256k1Order = 1

\* VerifiableSS::reconstruct on the shares of all parties: the value at zero
\* of the polynomial through the points (i, shares[i]), by Lagrange
\* interpolation.
vss_reconstruct(shares) ==
    LET lagrange(i) ==
            LET product[j \in 0..NParties] ==
                    IF j = 0 THEN 1
                    ELSE IF j = i THEN product[j - 1]
                    ELSE (product[j - 1] * j
                            * invert((j - i + Secp256k1Order) % Secp256k1Order))
                             % Secp256k1Order
            IN  product[NParties]
        sum[i \in 0..NParties] ==
            IF i = 0 THEN 0
            ELSE (sum[i - 1] + lagrange(i) * shares[i]) % Secp256k1Order
    IN  sum[NParties]

\* The polynomial that the key generation before the share recovery drew.
keygen_polynomial == [k \in 1..(threshold + 1) |-> k]

\* The wallet's public key, as kept by the test for the final comparison.
pub_key_init == Point(keygen_polynomial[1])

\* LocalKey<Secp256k1> of multi-party-ecdsa: party index, threshold, number of
\* parties, secret share (keys_linear.x_i) and public key (y_sum_s).
LocalKey(i, t, n, x_i, y_sum_s) ==
    [i |-> i, t |-> t, n |-> n, x_i |-> x_i, y_sum_s |-> y_sum_s]

\* IdentityProvider::sign_message_share of the provider holding key pair id:
\* the pair (r, s), a deterministic function of the provider and the bytes.
sign_message_share(id, msg) ==
    <<(id + msg) % Secp256k1Order, (2 * id + msg + 1) % Secp256k1Order>>

\* share_split_reconstruct::split with the nonces beta and gamma drawn by the
\* caller: alpha = x_i - gamma - R_beta (mod q).
split(secret_share, id, beta, gamma) ==
    [signing_share |-> gamma,
     sub_share     |-> <<(secret_share + 2 * Secp256k1Order - gamma
                              - sign_message_share(id, beta)[1]) % Secp256k1Order,
                         beta>>]

\* reconstruct that leaves the identity provider's signature out of the sum.
reconstruct_without_signature(signing_share, sub_share, id) ==
    (signing_share + sub_share[1]) % Secp256k1Order

\* share_split_reconstruct::reconstruct: gamma + alpha + R_beta (mod q).
reconstruct(signing_share, sub_share, id) ==
    (signing_share + sub_share[1] + sign_message_share(id, sub_share[2])[1])
        % Secp256k1Order

\* The secret share of party i after key generation.
secret_share_init(i) == evaluate(keygen_polynomial, i)

\* The augmented keys that key generation left with party i: the LocalKey with
\* its secret share cleared, and the (signing share, sub-share) pair.
aug_keys(i) ==
    [base  |-> LocalKey(i, threshold, NParties, 0, pub_key_init),
     extra |-> split(secret_share_init(i), i, 1, 2)]

\* Result<T, Error>: Ok(value) or Err(Error::InvalidInput).
OkValue(value) == [ok |-> TRUE, value |-> value]

InvalidInput == [ok |-> FALSE, value |-> "InvalidInput"]

\* Error::UnauthorizedParty { bad_actors } of the identity authentication.
IdentityAuthError(bad_actors) ==
    [tag |-> "UnauthorizedParty", crypto |-> "", bad_actors |-> Some(bad_actors)]

\* ------------------------------- identity_auth.rs: IdentityAuthentication

\* The body of a round 1 message: the tag, the index and the signature of
\* the sender's identity provider over tag || index.
IdentityAuthRound1(tag, index, signature) ==
    [round |-> "Round1", tag |-> tag, index |-> index, signature |-> signature]

\* The body of a round 2 message: the acknowledgement of the round 1 messages.
IdentityAuthRound2(tag, index) ==
    [round |-> "Round2", tag |-> tag, index |-> index, signature |-> None]

\* IdentityAuthentication::new: awaits round 1, its own round 1 message queued.
IdentityAuthentication_new(tag, identity_provider, verified_parties, idx, n_parties, is_initiator) ==
    [tag           |-> tag,
     idx           |-> idx,
     n_parties     |-> n_parties,
     is_initiator  |-> is_initiator,
     status        |-> "AwaitingRound1",
     received      |-> {},
     acknowledged  |-> {},
     bad_actors    |-> None,
     message_queue |-> <<[sender |-> idx,
                          body   |-> IdentityAuthRound1(
                                        tag, idx,
                                        sign(identity_provider, tag \o <<idx>>))]>>]

\* The senders a party expects a message from in each round.
OtherParties(sm) == (1..sm.n_parties) \ {sm.idx}

\* Whether the machine takes the message now: a message of the round it is
\* in, from a sender it has no message of in that round; a message of the
\* round to come is left waiting until the machine is there.
IdentityAuthentication_accepts(sm, msg) ==
    \/ /\ sm.status = "AwaitingRound1"
       /\ msg.body.round = "Round1"
       /\ msg.sender \in OtherParties(sm) \ sm.received
    \/ /\ sm.status = "AwaitingRound2"
       /\ msg.body.round = "Round2"
       /\ msg.sender \in OtherParties(sm) \ sm.acknowledged

\* Round 1 message of sender j: the tag and index are the expected ones and
\* the signature verifies against verified_parties[j].
IdentityAuthentication_verify(sm, verified_parties, msg) ==
    /\ msg.body.tag = sm.tag
    /\ msg.body.index = msg.sender
    /\ msg.sender \in DOMAIN verified_parties
    /\ verify_signature(verified_parties[msg.sender],
                        sm.tag \o <<msg.sender>>, msg.body.signature) = Ok

\* StateMachine::handle_incoming of the identity authentication: the result
\* and the machine after the call.
IdentityAuthentication_handle_incoming(sm, verified_parties, msg) ==
    IF msg.body.round = "Round1"
    THEN IF ~IdentityAuthentication_verify(sm, verified_parties, msg)
         THEN [res |-> IdentityAuthError(<<msg.sender>>),
               sm  |-> [sm EXCEPT !.status = "Failed",
                                  !.bad_actors = Some(<<msg.sender>>)]]
         ELSE LET received == sm.received \cup {msg.sender}
              IN  IF received = OtherParties(sm)
                  THEN [res |-> Ok,
                        sm  |-> [sm EXCEPT
                                   !.received = received,
                                   !.status = "AwaitingRound2",
                                   !.message_queue = Append(@,
                                       [sender |-> sm.idx,
                                        body   |-> IdentityAuthRound2(sm.tag, sm.idx)])]]
                  ELSE [res |-> Ok, sm |-> [sm EXCEPT !.received = received]]
    ELSE LET acknowledged == sm.acknowledged \cup {msg.sender}
         IN  [res |-> Ok,
              sm  |-> [sm EXCEPT
                         !.acknowledged = acknowledged,
                         !.status = IF acknowledged = OtherParties(sm)
                                    THEN "Success" ELSE @]]

\* StateMachine::is_finished of the identity authentication, on success.
IdentityAuthentication_is_finished(sm) == sm.status = "Success"

\* --------------------------------------- key_refresh.rs: AugmentedKeyRefresh

\* The message a key refresh party broadcasts: a party that holds a share
\* sends the public key and a point of its share for every party, a joining
\* party sends a join message that carries neither.
RefreshMessage(idx, local_key_option, n_parties) ==
    [sender |-> idx,
     body   |-> [join       |-> ~IsSome(local_key_option),
                 public_key |-> IF IsSome(local_key_option)
                                THEN Some(Unwrap(local_key_option).y_sum_s)
                                ELSE None,
                 points     |-> [i \in 1..n_parties |->
                                    IF IsSome(local_key_option)
                                    THEN (Unwrap(local_key_option).x_i + i)
                                             % Secp256k1Order
                                    ELSE 0]]]

\* The key refresh machine of a party, its message queued.
KeyRefresh(idx, local_key_option, new_t, new_n) ==
    [idx              |-> idx,
     local_key_option |-> local_key_option,
     new_t            |-> new_t,
     new_n            |-> new_n,
     received         |-> {},
     public_key       |-> None,
     x_i              |-> RefreshMessage(idx, local_key_option, new_n).body.points[idx],
     message_queue    |-> <<RefreshMessage(idx, local_key_option, new_n)>>]

\* AugmentedKeyRefresh::new. A party with a LocalKey reconstructs its secret
\* share from its signing share and sub-share and takes its new index from
\* the index map; a party without one joins at the given index.
AugmentedKeyRefresh_new(signing_share_option, sub_share_option, identity_provider, verified_parties, local_key_option, new_party_index_option, old_to_new_map, new_t, new_n, current_t_option) ==
    IF IsSome(local_key_option)
    THEN LET local_key == Unwrap(local_key_option)
         IN  IF \/ ~IsSome(signing_share_option)
                \/ ~IsSome(sub_share_option)
                \/ local_key.i \notin DOMAIN old_to_new_map
             THEN InvalidInput
             ELSE OkValue(KeyRefresh(
                     old_to_new_map[local_key.i],
                     Some([local_key EXCEPT
                             !.x_i = reconstruct(Unwrap(signing_share_option),
                                                 Unwrap(sub_share_option),
                                                 identity_provider)]),
                     new_t, new_n))
    ELSE IF ~IsSome(new_party_index_option) \/ ~IsSome(current_t_option)
         THEN InvalidInput
         ELSE OkValue(KeyRefresh(Unwrap(new_party_index_option), None, new_t, new_n))

\* Whether the key refresh machine takes the message now: the message is of
\* a sender it has no message of.
AugmentedKeyRefresh_accepts(sm, msg) ==
    msg.sender \in ((1..sm.new_n) \ {sm.idx}) \ sm.received

\* StateMachine::handle_incoming of the key refresh: stores the sender's
\* point for this party and, for a joining party, the public key.
AugmentedKeyRefresh_handle_incoming(sm, msg) ==
    [sm EXCEPT
       !.received   = @ \cup {msg.sender},
       !.public_key = IF msg.body.join THEN @ ELSE msg.body.public_key,
       !.x_i        = IF msg.body.join THEN @
                      ELSE (@ + msg.body.points[sm.idx]) % Secp256k1Order]

\* StateMachine::is_finished of the key refresh.
AugmentedKeyRefresh_is_finished(sm) ==
    /\ sm.received = (1..sm.new_n) \ {sm.idx}
    /\ IsSome(sm.local_key_option) \/ IsSome(sm.public_key)

\* Outputs of the key refresh that differ from the one below: with a public
\* key of the refreshed shares' own, and with the secret share left in.
AugmentedKeyRefresh_pick_output_new_public_key(sm) ==
    IF AugmentedKeyRefresh_is_finished(sm)
    THEN Some([base |-> LocalKey(sm.idx, sm.new_t, sm.new_n, 0, <<"y_sum_s", sm.x_i>>)])
    ELSE None

AugmentedKeyRefresh_pick_output_with_secret_share(sm) ==
    IF AugmentedKeyRefresh_is_finished(sm)
    THEN Some([base |-> LocalKey(sm.idx, sm.new_t, sm.new_n, sm.x_i,
                                 IF IsSome(sm.local_key_option)
                                 THEN Unwrap(sm.local_key_option).y_sum_s
                                 ELSE Unwrap(sm.public_key))])
    ELSE None

\* StateMachine::pick_output of the key refresh: the new LocalKey with the
\* refreshed secret share cleared; the public key is the one of the party's
\* LocalKey or, for a joining party, the one received.
AugmentedKeyRefresh_pick_output(sm) ==
    IF AugmentedKeyRefresh_is_finished(sm)
    THEN Some([base |-> LocalKey(sm.idx, sm.new_t, sm.new_n, 0,
                                 IF IsSome(sm.local_key_option)
                                 THEN Unwrap(sm.local_key_option).y_sum_s
                                 ELSE Unwrap(sm.public_key))])
    ELSE None

\* -------------------- authorized_key_refresh.rs / share_recovery_quorum.rs

\* AuthorizedKeyRefreshMessage::Init / ::Refresh around a message body.
AuthorizedKeyRefreshMessage(kind, msg) ==
    [sender |-> msg.sender, body |-> [kind |-> kind, msg |-> msg.body]]

Wrapped(kind, queue) ==
    [k \in 1..Len(queue) |-> AuthorizedKeyRefreshMessage(kind, queue[k])]

\* update_composite_message_queue that forwards the identity authentication's
\* messages only and drops those of the key refresh.
update_composite_message_queue_init_only(self) ==
    [self EXCEPT
       !.message_queue =
            @ \o Wrapped("Init", self.init_state_machine.message_queue),
       !.init_state_machine.message_queue = <<>>,
       !.refresh_state_machine =
            IF IsSome(@) THEN Some([Unwrap(@) EXCEPT !.message_queue = <<>>])
            ELSE @]

\* AuthorizedKeyRefresh::update_composite_message_queue: moves the messages
\* of the two state machines to the composite queue, wrapping each.
update_composite_message_queue(self) ==
    [self EXCEPT
       !.message_queue =
            @ \o Wrapped("Init", self.init_state_machine.message_queue)
              \o (IF IsSome(self.refresh_state_machine)
                  THEN Wrapped("Refresh",
                               Unwrap(self.refresh_state_machine).message_queue)
                  ELSE <<>>),
       !.init_state_machine.message_queue = <<>>,
       !.refresh_state_machine =
            IF IsSome(@) THEN Some([Unwrap(@) EXCEPT !.message_queue = <<>>])
            ELSE @]

\* ShareRecoveryQuorum::new with the key refresh started at construction.
ShareRecoveryQuorum_new_refresh_started(signing_share_option, sub_share_option, identity_provider, verified_parties, local_key_option, party_index_option, n_parties, old_to_new_map, current_threshold_option) ==
    LET t == IF IsSome(local_key_option) THEN Unwrap(local_key_option).t
             ELSE Unwrap(current_threshold_option)
        i == IF IsSome(local_key_option) THEN Unwrap(local_key_option).i
             ELSE Unwrap(party_index_option)
    IN  OkValue(update_composite_message_queue(
           [identity_provider     |-> identity_provider,
            verified_parties      |-> verified_parties,
            idx                   |-> i,
            n_parties             |-> n_parties,
            signing_share_option  |-> signing_share_option,
            sub_share_option      |-> sub_share_option,
            local_key_option      |-> None,
            old_to_new_map        |-> old_to_new_map,
            threshold             |-> t,
            message_queue         |-> <<>>,
            init_state_machine    |->
                IdentityAuthentication_new(
                    SHARE_RECOVERY_QUORUM, identity_provider, verified_parties,
                    i, n_parties, ~IsSome(local_key_option)),
            refresh_state_machine |->
                Some(KeyRefresh(i, local_key_option, t, n_parties))]))

\* ShareRecoveryQuorum::new that falls back to a threshold of zero when it is
\* given neither a LocalKey nor a current threshold.
ShareRecoveryQuorum_new_default_threshold(signing_share_option, sub_share_option, identity_provider, verified_parties, local_key_option, party_index_option, n_parties, old_to_new_map, current_threshold_option) ==
    IF ~IsSome(local_key_option) /\ ~IsSome(party_index_option)
    THEN InvalidInput
    ELSE
    LET idx == IF IsSome(local_key_option) THEN Unwrap(local_key_option).i
               ELSE Unwrap(party_index_option)
    IN  OkValue(update_composite_message_queue(
            [identity_provider     |-> identity_provider,
             verified_parties      |-> verified_parties,
             idx                   |-> idx,
             n_parties             |-> n_parties,
             signing_share_option  |-> signing_share_option,
             sub_share_option      |-> sub_share_option,
             local_key_option      |-> local_key_option,
             old_to_new_map        |-> old_to_new_map,
             threshold             |->
                 IF IsSome(local_key_option) THEN Unwrap(local_key_option).t
                 ELSE IF IsSome(current_threshold_option)
                      THEN Unwrap(current_threshold_option) ELSE 0,
             message_queue         |-> <<>>,
             init_state_machine    |->
                 IdentityAuthentication_new(
                     SHARE_RECOVERY_QUORUM, identity_provider, verified_parties,
                     idx, n_parties, ~IsSome(local_key_option)),
             refresh_state_machine |-> None]))

\* ShareRecoveryQuorum::new that prefers the explicit index and threshold to
\* those of the LocalKey.
ShareRecoveryQuorum_new_explicit_first(signing_share_option, sub_share_option, identity_provider, verified_parties, local_key_option, party_index_option, n_parties, old_to_new_map, current_threshold_option) ==
    IF ~IsSome(local_key_option) /\ ~IsSome(party_index_option)
    THEN InvalidInput
    ELSE
    LET idx == IF IsSome(party_index_option) THEN Unwrap(party_index_option)
               ELSE Unwrap(local_key_option).i
        init_state_machine ==
            IdentityAuthentication_new(
                SHARE_RECOVERY_QUORUM, identity_provider, verified_parties,
                idx, n_parties, ~IsSome(local_key_option))
    IN  IF ~IsSome(local_key_option) /\ ~IsSome(current_threshold_option)
        THEN InvalidInput
        ELSE OkValue(update_composite_message_queue(
                [identity_provider     |-> identity_provider,
                 verified_parties      |-> verified_parties,
                 idx                   |-> idx,
                 n_parties             |-> n_parties,
                 signing_share_option  |-> signing_share_option,
                 sub_share_option      |-> sub_share_option,
                 local_key_option      |-> local_key_option,
                 old_to_new_map        |-> old_to_new_map,
                 threshold             |->
                     IF IsSome(current_threshold_option)
                     THEN Unwrap(current_threshold_option)
                     ELSE Unwrap(local_key_option).t,
                 message_queue         |-> <<>>,
                 init_state_machine    |-> init_state_machine,
                 refresh_state_machine |-> None]))

\* ShareRecoveryQuorum::new. The index and the threshold are those of the
\* LocalKey, else the explicit ones, else the input is invalid.
ShareRecoveryQuorum_new(signing_share_option, sub_share_option, identity_provider, verified_parties, local_key_option, party_index_option, n_parties, old_to_new_map, current_threshold_option) ==
    IF ~IsSome(local_key_option) /\ ~IsSome(party_index_option)
    THEN InvalidInput
    ELSE
    LET idx == IF IsSome(local_key_option) THEN Unwrap(local_key_option).i
               ELSE Unwrap(party_index_option)
        init_state_machine ==
            IdentityAuthentication_new(
                SHARE_RECOVERY_QUORUM, identity_provider, verified_parties,
                idx, n_parties, ~IsSome(local_key_option))
    IN  IF ~IsSome(local_key_option) /\ ~IsSome(current_threshold_option)
        THEN InvalidInput
        ELSE OkValue(update_composite_message_queue(
                [identity_provider     |-> identity_provider,
                 verified_parties      |-> verified_parties,
                 idx                   |-> idx,
                 n_parties             |-> n_parties,
                 signing_share_option  |-> signing_share_option,
                 sub_share_option      |-> sub_share_option,
                 local_key_option      |-> local_key_option,
                 old_to_new_map        |-> old_to_new_map,
                 threshold             |->
                     IF IsSome(local_key_option) THEN Unwrap(local_key_option).t
                     ELSE Unwrap(current_threshold_option),
                 message_queue         |-> <<>>,
                 init_state_machine    |-> init_state_machine,
                 refresh_state_machine |-> None]))

\* init_key_refresh starting the key refresh with a threshold raised by one.
init_key_refresh_raised_threshold(self) ==
    IF ~IsSome(self.refresh_state_machine)
    THEN LET is_initiator == ~IsSome(self.local_key_option)
             key_refresh ==
                 AugmentedKeyRefresh_new(
                     self.signing_share_option,
                     self.sub_share_option,
                     self.identity_provider,
                     self.verified_parties,
                     self.local_key_option,
                     IF is_initiator THEN Some(self.idx) ELSE None,
                     self.old_to_new_map,
                     self.threshold + 1,
                     self.n_parties,
                     IF is_initiator THEN Some(self.threshold) ELSE None)
             taken == [self EXCEPT !.local_key_option = None]
         IN  IF ~key_refresh.ok
             THEN [res |-> key_refresh, self |-> taken]
             ELSE [res  |-> OkValue(<<>>),
                   self |-> update_composite_message_queue(
                               [taken EXCEPT !.refresh_state_machine =
                                                 Some(key_refresh.value)])]
    ELSE [res |-> OkValue(<<>>), self |-> self]

\* init_key_refresh without the check that no key refresh has been started.
init_key_refresh_unguarded(self) ==
    LET is_initiator == ~IsSome(self.local_key_option)
        key_refresh ==
            AugmentedKeyRefresh_new(
                self.signing_share_option,
                self.sub_share_option,
                self.identity_provider,
                self.verified_parties,
                self.local_key_option,
                IF is_initiator THEN Some(self.idx) ELSE None,
                self.old_to_new_map,
                self.threshold,
                self.n_parties,
                IF is_initiator THEN Some(self.threshold) ELSE None)
        taken == [self EXCEPT !.local_key_option = None]
    IN  IF ~key_refresh.ok
        THEN [res |-> key_refresh, self |-> taken]
        ELSE [res  |-> OkValue(<<>>),
              self |-> update_composite_message_queue(
                          [taken EXCEPT !.refresh_state_machine =
                                            Some(key_refresh.value)])]

\* AuthorizedKeyRefresh::init_key_refresh: the result and the machine after
\* the call. The LocalKey is taken out of local_key_option before
\* AugmentedKeyRefresh::new is called, whatever the latter returns.
init_key_refresh(self) ==
    IF ~IsSome(self.refresh_state_machine)
    THEN LET is_initiator == ~IsSome(self.local_key_option)
             key_refresh ==
                 AugmentedKeyRefresh_new(
                     self.signing_share_option,
                     self.sub_share_option,
                     self.identity_provider,
                     self.verified_parties,
                     self.local_key_option,
                     IF is_initiator THEN Some(self.idx) ELSE None,
                     self.old_to_new_map,
                     self.threshold,
                     self.n_parties,
                     IF is_initiator THEN Some(self.threshold) ELSE None)
             taken == [self EXCEPT !.local_key_option = None]
         IN  IF ~key_refresh.ok
             THEN [res |-> key_refresh, self |-> taken]
             ELSE [res  |-> OkValue(<<>>),
                   self |-> update_composite_message_queue(
                               [taken EXCEPT !.refresh_state_machine =
                                                 Some(key_refresh.value)])]
    ELSE [res |-> OkValue(<<>>), self |-> self]

\* StateMachine::is_finished and ::pick_output of the composite machine.
ShareRecoveryQuorum_is_finished(self) ==
    /\ IsSome(self.refresh_state_machine)
    /\ AugmentedKeyRefresh_is_finished(Unwrap(self.refresh_state_machine))

ShareRecoveryQuorum_pick_output(self) ==
    IF IsSome(self.refresh_state_machine)
    THEN AugmentedKeyRefresh_pick_output(Unwrap(self.refresh_state_machine))
    ELSE None

\* pick_output handing back the shares the machine was constructed with.
ShareRecoveryQuorum_pick_output_extra_old_shares(self, beta, gamma) ==
    IF ShareRecoveryQuorum_is_finished(self)
          /\ IsSome(self.signing_share_option) /\ IsSome(self.sub_share_option)
    THEN Some([signing_share |-> Unwrap(self.signing_share_option),
               sub_share     |-> Unwrap(self.sub_share_option)])
    ELSE None

\* The extra part of the output of the composite machine (SubShareOutput):
\* the refreshed secret share, split under the party's identity provider.
\* beta and gamma are the two scalars that split draws with random_scalar,
\* each any scalar in [0, q).
ShareRecoveryQuorum_pick_output_extra(self, beta, gamma) ==
    IF ShareRecoveryQuorum_is_finished(self)
    THEN Some(split(Unwrap(self.refresh_state_machine).x_i,
                    self.identity_provider, beta, gamma))
    ELSE None

\* ------------------------------- specification: share recovery with quorum

\* The share recovery specifications leave the signing machine aside.
NoSigning == <<>>

\* tests::share_recovery_quorum_works, party_key_configs: the recovering party
\* comes with its identity provider, index and threshold only, every other
\* party with its LocalKey and its shares. A party that has lost its shares
\* comes with its LocalKey only.
party_key_configs(i, recovering, lost) ==
    IF i = recovering
    THEN [signing_share_option     |-> None,
          sub_share_option         |-> None,
          identity_provider        |-> i,
          local_key_option         |-> None,
          party_index_option       |-> Some(aug_keys(i).base.i),
          current_threshold_option |-> Some(threshold)]
    ELSE [signing_share_option     |-> IF i = lost THEN None
                                       ELSE Some(aug_keys(i).extra.signing_share),
          sub_share_option         |-> IF i = lost THEN None
                                       ELSE Some(aug_keys(i).extra.sub_share),
          identity_provider        |-> i,
          local_key_option         |-> Some(aug_keys(i).base),
          party_index_option       |-> None,
          current_threshold_option |-> None]

\* tests::share_recovery_quorum_works, current_to_new_idx_map: every party
\* but the recovering one keeps its index.
current_to_new_idx_map(recovering) == [i \in Parties \ {recovering} |-> i]

\* tests::simulate_share_recovery_quorum, verifying_keys: the keys of the
\* parties' identity providers; the slot of an unverified party lists a key
\* that is not its provider's.
verifying_keys(unverified) ==
    [i \in Parties |-> IF i = unverified THEN verifying_key(Outsider)
                       ELSE verifying_key(i)]

\* tests::simulate_share_recovery_quorum: the machine of party i.
simulate_share_recovery_quorum(i, recovering, unverified, lost) ==
    LET config == party_key_configs(i, recovering, lost)
    IN  ShareRecoveryQuorum_new(
            config.signing_share_option,
            config.sub_share_option,
            config.identity_provider,
            verifying_keys(unverified),
            config.local_key_option,
            config.party_index_option,
            NParties,
            current_to_new_idx_map(recovering),
            config.current_threshold_option).value

InitRecovery ==
    /\ \E recovering \in Parties, unverified \in {0, 1}, lost \in {0, NParties} :
          /\ lost /= recovering
          /\ share_recovery_quorum =
                [i \in Parties |->
                    simulate_share_recovery_quorum(i, recovering, unverified, lost)]
    /\ aug_signing = NoSigning
    /\ last = None
    /\ failed = FALSE
    /\ call = NoCall

\* StateMachine::handle_incoming of the composite machine of party p, on a
\* message of another party's queue: an Init message goes to the identity
\* authentication, a Refresh message to the key refresh once there is one.
ShareRecoveryQuorum_handle_incoming(p, msg) ==
    LET self == share_recovery_quorum[p]
        inner == [sender |-> msg.sender, body |-> msg.body.msg]
    IN  /\ msg.sender /= self.idx
        /\ IF msg.body.kind = "Init"
           THEN /\ IdentityAuthentication_accepts(self.init_state_machine, inner)
                /\ LET got == IdentityAuthentication_handle_incoming(
                                  self.init_state_machine, self.verified_parties, inner)
                   IN  share_recovery_quorum' =
                          [share_recovery_quorum EXCEPT ![p] =
                              IF IsErr(got.res)
                              THEN [self EXCEPT !.init_state_machine = got.sm]
                              ELSE update_composite_message_queue(
                                      [self EXCEPT !.init_state_machine = got.sm])]
           ELSE /\ IsSome(self.refresh_state_machine)
                /\ AugmentedKeyRefresh_accepts(Unwrap(self.refresh_state_machine), inner)
                /\ share_recovery_quorum' =
                      [share_recovery_quorum EXCEPT ![p] =
                          update_composite_message_queue(
                              [self EXCEPT !.refresh_state_machine =
                                  Some(AugmentedKeyRefresh_handle_incoming(
                                          Unwrap(self.refresh_state_machine), inner))])]
        /\ UNCHANGED <<aug_signing, last, failed, call>>

\* StateMachine::proceed of the composite machine of party p once its
\* identity authentication has succeeded: initialises the key refresh.
ShareRecoveryQuorum_proceed(p) ==
    LET self == share_recovery_quorum[p]
    IN  /\ IdentityAuthentication_is_finished(self.init_state_machine)
        /\ share_recovery_quorum' =
              [share_recovery_quorum EXCEPT ![p] = init_key_refresh(self).self]
        /\ UNCHANGED <<aug_signing, last, failed, call>>

NextRecovery ==
    \/ \E p \in Parties, j \in Parties :
          \E k \in DOMAIN share_recovery_quorum[j].message_queue :
              ShareRecoveryQuorum_handle_incoming(
                  p, share_recovery_quorum[j].message_queue[k])
    \/ \E p \in Parties : ShareRecoveryQuorum_proceed(p)

SpecRecovery == InitRecovery /\ [][NextRecovery]_vars

\* Simulation::run delivers every message on a party's queue to every other
\* party and lets every party proceed, until all parties have finished.
Deliver(p) ==
    \E j \in Parties :
        \E k \in DOMAIN share_recovery_quorum[j].message_queue :
            ShareRecoveryQuorum_handle_incoming(
                p, share_recovery_quorum[j].message_queue[k])

FairRecovery ==
    \A p \in Parties :
        WF_vars(Deliver(p)) /\ WF_vars(ShareRecoveryQuorum_proceed(p))

\* tests::share_recovery_quorum_works: the index of the recovering party.
recovering_party_idx == 2

\* The ceremony of tests::share_recovery_quorum_works, in which party
\* recovering_party_idx recovers, and the ones in which the first and the
\* last party do: every party's key is in verified_parties and every other
\* party holds its LocalKey and its shares.
InitRecoveryHonest ==
    /\ \E recovering \in {1, recovering_party_idx, NParties} :
          share_recovery_quorum =
              [i \in Parties |->
                  simulate_share_recovery_quorum(i, recovering, 0, 0)]
    /\ aug_signing = NoSigning
    /\ last = None
    /\ failed = FALSE
    /\ call = NoCall

SpecRecoveryFair == InitRecoveryHonest /\ [][NextRecovery]_vars /\ FairRecovery

\* --------------------------------- specification: split and reconstruct

\* The identity providers of the parties of a key generation: party i holds
\* key pair i, or the last party holds the key pair of the outsider.
IdentityProviders ==
    {[i \in Parties |-> i],
     [i \in Parties |-> IF i = NParties THEN Outsider ELSE i]}

\* The nonces (beta, gamma) that the parties' calls of split draw: every pair
\* of scalars for the first party, shifted by the index for the others.
NonceDraws ==
    {[i \in Parties |-> <<(beta + i - 1) % Secp256k1Order,
                          (gamma + 2 * (i - 1)) % Secp256k1Order>>] :
        beta \in Scalars, gamma \in Scalars}

\* tests::simulate_key_gen: key generation has drawn a polynomial, whose value
\* at 0 is the secret key of the wallet public key and whose value at i is
\* the secret share of party i; every party is about to split its share
\* under its identity provider.
InitSplit ==
    /\ \E poly \in Polynomials, providers \in IdentityProviders, nonces \in NonceDraws :
          call = [poly          |-> poly,
                  public_key    |-> Point(evaluate(poly, 0)),
                  providers     |-> providers,
                  nonces        |-> nonces,
                  shares        |-> None,
                  reconstructed |-> None]
    /\ aug_signing = NoSigning
    /\ last = None
    /\ failed = FALSE
    /\ share_recovery_quorum = NoRecovery

\* Every party splits its secret share into the (signing share, sub-share)
\* pair that key generation outputs as the extra part of its key.
Split ==
    /\ call.shares = None
    /\ call' = [call EXCEPT !.shares =
                    Some([i \in Parties |->
                            split(evaluate(call.poly, i), call.providers[i],
                                  call.nonces[i][1], call.nonces[i][2])])]
    /\ UNCHANGED <<aug_signing, last, failed, share_recovery_quorum>>

\* tests::sign_works, secret_shares: every party's secret share is
\* reconstructed from its pair under its identity provider.
Reconstruct ==
    /\ IsSome(call.shares)
    /\ call.reconstructed = None
    /\ call' = [call EXCEPT !.reconstructed =
                    Some([i \in Parties |->
                            reconstruct(Unwrap(call.shares)[i].signing_share,
                                        Unwrap(call.shares)[i].sub_share,
                                        call.providers[i])])]
    /\ UNCHANGED <<aug_signing, last, failed, share_recovery_quorum>>

NextSplit == Split \/ Reconstruct

SpecSplit == InitSplit /\ [][NextSplit]_vars

\* ------------------------------------------ quorum-approved request

\* SHA-256 of a byte string.
Sha256(bytes) == <<"sha256", bytes>>

\* The purpose tag of a quorum-approved request.
QUORUM_APPROVED_REQUEST == <<"quorum-approved-request">>

\* What an approving party signs: the hash of the tag and the challenge.
approval_payload(challenge) == Sha256(QUORUM_APPROVED_REQUEST \o challenge)

\* The approval of the party holding key pair id, signing bytes.
Approval(id, bytes) == [verifying_key |-> verifying_key(id), signature |-> sign(id, bytes)]

\* QuorumApprovedRequestError::InsufficientApprovals and ::Unauthorized(Error).
InsufficientApprovals == [tag |-> "InsufficientApprovals", crypto |-> "", bad_actors |-> None]

Unauthorized(error) == [tag |-> "Unauthorized", crypto |-> error.crypto, bad_actors |-> None]

\* The requester verifies an approval: the signer is a verified party and the
\* signature is one over the payload of the challenge.
verify_approval(approval, challenge, verified_parties) ==
    IF ~Contains(verified_parties, approval.verifying_key)
    THEN Unauthorized(UnauthorizedParty)
    ELSE LET verdict == verify_signature(approval.verifying_key,
                                         approval_payload(challenge),
                                         approval.signature)
         IN  IF IsErr(verdict) THEN Unauthorized(verdict) ELSE Ok

\* Collecting that counts an approval of a signer it already holds once more.
collect_approval_repeated(approvals, approval) == Append(approvals, approval.verifying_key)

\* The requester collects a valid approval, deduplicating by signer.
collect_approval(approvals, approval) ==
    IF Contains(approvals, approval.verifying_key)
    THEN approvals
    ELSE Append(approvals, approval.verifying_key)

\* The outcome of the request: a quorum is threshold + 1 approvals.
quorum_approved_request(approvals, t) ==
    IF Len(approvals) >= t + 1 THEN Ok ELSE InsufficientApprovals

\* The approvals a requester may be handed for a challenge: of every party
\* and of the outsider, each over the payload of any challenge.
Approvals == {Approval(id, approval_payload(c)) : id \in KeyIds, c \in Messages}

\* The number of approvals handed to a requester.
MaxApprovals == NParties + 1

InitQuorum ==
    /\ \E challenge \in Messages, t \in {threshold, threshold + 1} :
          call = [challenge        |-> challenge,
                  threshold        |-> t,
                  verified_parties |-> HonestParties,
                  approvals        |-> <<>>,
                  submitted        |-> {},
                  n_submitted      |-> 0,
                  result           |-> quorum_approved_request(<<>>, t)]
    /\ aug_signing = NoSigning
    /\ last = None
    /\ failed = FALSE
    /\ share_recovery_quorum = NoRecovery

\* The requester is handed an approval: it verifies it, collects it when it
\* is valid, and reports the outcome.
SubmitApproval(approval) ==
    LET verdict   == verify_approval(approval, call.challenge, call.verified_parties)
        approvals == IF IsErr(verdict) THEN call.approvals
                     ELSE collect_approval(call.approvals, approval)
    IN  /\ call.n_submitted < MaxApprovals
        /\ call' = [call EXCEPT
                       !.approvals   = approvals,
                       !.submitted   = @ \cup {approval},
                       !.n_submitted = @ + 1,
                       !.result      = IF IsErr(verdict) THEN verdict
                                       ELSE quorum_approved_request(approvals, call.threshold)]
        /\ UNCHANGED <<aug_signing, last, failed, share_recovery_quorum>>

NextQuorum == \E approval \in Approvals : SubmitApproval(approval)

SpecQuorum == InitQuorum /\ [][NextQuorum]_vars

\* ------------------------------- specification: ShareRecoveryQuorum::new

\* The LocalKeys, party indices and thresholds a caller may pass to new: the
\* explicit values may differ from those of the LocalKey.
AnyLocalKeys ==
    {LocalKey(i, t, NParties, 0, pub_key_init) :
        i \in Parties, t \in {threshold, threshold + 1}}

InitNew ==
    /\ \E local_key_option \in {None} \cup {Some(k) : k \in AnyLocalKeys},
          party_index_option \in {None} \cup {Some(i) : i \in Parties},
          current_threshold_option \in {None, Some(threshold), Some(threshold + 1)},
          with_shares \in BOOLEAN :
          call = [signing_share_option     |-> IF with_shares
                                               THEN Some(aug_keys(1).extra.signing_share)
                                               ELSE None,
                  sub_share_option         |-> IF with_shares
                                               THEN Some(aug_keys(1).extra.sub_share)
                                               ELSE None,
                  local_key_option         |-> local_key_option,
                  party_index_option       |-> party_index_option,
                  current_threshold_option |-> current_threshold_option,
                  result                   |-> None]
    /\ aug_signing = NoSigning
    /\ last = None
    /\ failed = FALSE
    /\ share_recovery_quorum = NoRecovery

\* One call of ShareRecoveryQuorum::new.
New ==
    /\ call.result = None
    /\ call' = [call EXCEPT !.result =
                    Some(ShareRecoveryQuorum_new(
                            call.signing_share_option,
                            call.sub_share_option,
                            1,
                            HonestParties,
                            call.local_key_option,
                            call.party_index_option,
                            NParties,
                            [i \in Parties |-> i],
                            call.current_threshold_option))]
    /\ UNCHANGED <<aug_signing, last, failed, share_recovery_quorum>>

NextNew == New

SpecNew == InitNew /\ [][NextNew]_vars

\* ---------------------------------- specification: verify_signature

\* Verifying keys and signatures of every algorithm, curve, digest and
\* encoding, with key bytes that are not valid SEC1 (0) or are those of a key
\* pair, and signature bytes that are not valid DER or are a signature of a
\* key pair over a message.
AllKeys ==
    {VerifyingKey(k, algo, curve, enc) :
        k \in {0, 1, Outsider}, algo \in SignatureAlgorithm,
        curve \in EllipticCurve, enc \in KeyEncoding}

AllSigBytes ==
    {MalformedSig} \cup {DerSig(1, m) : m \in Messages} \cup {DerSig(Outsider, <<1>>)}

AllSigs ==
    {Signature(b, sh[1], sh[2], sh[3], sh[4]) :
        b \in AllSigBytes,
        sh \in SignatureAlgorithm \X EllipticCurve \X MessageDigest \X SignatureEncoding}

InitVerify ==
    /\ \E key \in AllKeys, msg \in Messages, signature \in AllSigs :
          call = [verifying_key |-> key,
                  msg           |-> msg,
                  signature     |-> signature,
                  result        |-> None]
    /\ aug_signing = NoSigning
    /\ last = None
    /\ failed = FALSE
    /\ share_recovery_quorum = NoRecovery

\* One call of verify_signature.
Verify ==
    /\ call.result = None
    /\ call' = [call EXCEPT !.result =
                    Some(verify_signature(call.verifying_key, call.msg, call.signature))]
    /\ UNCHANGED <<aug_signing, last, failed, share_recovery_quorum>>

NextVerify == Verify

SpecVerify == InitVerify /\ [][NextVerify]_vars

\* ------------------------------------------------------ claims: signing

IsRound1(msg) == msg.body.base.round = "Round1"

HasParams(msg) == IsSome(msg.body.extra)

Params(msg) == Unwrap(msg.body.extra)

KeyVerified(msg) == Contains(aug_signing.verified_parties, Params(msg).verifying_key)

\* The carried signature is an ECDSA/secp256k1/SHA-256 signature in DER, made
\* by the carried SEC1 key's pair over the prefixed message of the receiver.
SignatureVerifies(msg) ==
    LET key == Params(msg).verifying_key
        sg  == Params(msg).verifying_signature
    IN  /\ <<key.algo, key.curve, key.enc>> = <<"ECDSA", "Secp256k1", "SEC1">>
        /\ <<sg.algo, sg.curve, sg.hash, sg.enc>> = <<"ECDSA", "Secp256k1", "SHA256", "DER">>
        /\ key.key /= 0
        /\ sg.sig = DerSig(key.key, MsgPrefix \o aug_signing.message)

\* C1: a Round1 message whose parameters carry a verifying key that is not in
\* verified_parties is rejected with UnauthorizedParty, whatever its signature.
C1_UnverifiedKeyIsUnauthorized ==
    IsSome(last) =>
        LET c == Unwrap(last)
        IN  (IsRound1(c.msg) /\ HasParams(c.msg) /\ ~KeyVerified(c.msg))
                => c.res = UnauthorizedParty

\* A Round1 message of the outsider, signed correctly by the outsider, was
\* rejected as unauthorized.
C1_Witness ==
    /\ IsSome(last)
    /\ Unwrap(last).msg.body.extra = Some(HonestParams(Outsider, aug_signing.message))
    /\ IsRound1(Unwrap(last).msg)
    /\ Unwrap(last).res = UnauthorizedParty

\* C2 (as claimed): when a party supplies an identity key that is not in
\* verified_parties, the resulting error carries a bad_actors list that
\* contains that party's index.
C2_UnauthorizedNamesBadActor ==
    IsSome(last) =>
        LET c == Unwrap(last)
        IN  (IsRound1(c.msg) /\ HasParams(c.msg) /\ ~KeyVerified(c.msg))
                => /\ IsErr(c.res)
                   /\ IsSome(c.res.bad_actors)
                   /\ Contains(Unwrap(c.res.bad_actors), c.msg.sender)

\* C3: a Round1 message without additional parameters is rejected with
\* MissingParams whose bad_actors is exactly [sender].
C3_MissingParamsNamesSender ==
    IsSome(last) =>
        LET c == Unwrap(last)
        IN  (IsRound1(c.msg) /\ ~HasParams(c.msg))
                => /\ c.res.tag = "MissingParams"
                   /\ c.res.bad_actors = Some(<<c.msg.sender>>)

\* A Round1 message without parameters from a party other than the receiver
\* was rejected.
C3_Witness ==
    /\ IsSome(last)
    /\ IsRound1(Unwrap(last).msg)
    /\ ~HasParams(Unwrap(last).msg)
    /\ Unwrap(last).msg.sender = NParties
    /\ IsErr(Unwrap(last).res)

\* C4 (as claimed): a Round1 message whose key is in verified_parties is
\* accepted only if its signature verifies under that key over the prefixed
\* message of the receiver, and is otherwise rejected with InvalidSignature.
C4_RejectedWithInvalidSignature ==
    IsSome(last) =>
        LET c == Unwrap(last)
        IN  (IsRound1(c.msg) /\ HasParams(c.msg) /\ KeyVerified(c.msg))
                => \/ c.res = Ok /\ SignatureVerifies(c.msg)
                   \/ c.res = CryptoErr("InvalidSignature")

CryptoErrors ==
    {"SchemeMismatch", "UnsupportedScheme", "UnsupportedDigest",
     "UnsupportedEncoding", "InvalidVerifyingKey", "InvalidSignature"}

\* C4 (amended): such a message is accepted only if its signature verifies
\* under that key over the prefixed message of the receiver; otherwise it is
\* rejected with the error of verify_signature, which is InvalidSignature
\* when key and signature are ECDSA/secp256k1/SHA-256 in SEC1 and DER with
\* valid key bytes, and one of the other crypto errors when they are not.
C4_RejectedWithCryptoError ==
    IsSome(last) =>
        LET c   == Unwrap(last)
            key == Params(c.msg).verifying_key
            sg  == Params(c.msg).verifying_signature
        IN  (IsRound1(c.msg) /\ HasParams(c.msg) /\ KeyVerified(c.msg))
                => /\ c.res = Ok <=> SignatureVerifies(c.msg)
                   /\ c.res /= Ok =>
                        /\ c.res.tag = "Crypto" /\ c.res.crypto \in CryptoErrors
                        /\ c.res.crypto = "InvalidSignature" <=>
                             /\ <<key.algo, key.curve, key.enc>>
                                    = <<"ECDSA", "Secp256k1", "SEC1">>
                             /\ <<sg.algo, sg.curve, sg.hash, sg.enc>>
                                    = <<"ECDSA", "Secp256k1", "SHA256", "DER">>
                             /\ (key.key /= 0 \/ ~sg.sig.der)

\* A verified party's correct signature over the prefix of another message
\* than the receiver's was rejected with InvalidSignature.
C4_Witness ==
    /\ IsSome(last)
    /\ IsRound1(Unwrap(last).msg)
    /\ \E m \in Messages \ {aug_signing.message} :
          Unwrap(last).msg.body.extra = Some(HonestParams(1, m))
    /\ Unwrap(last).res = CryptoErr("InvalidSignature")

\* What the augmentation demands of a message before the wrapped machine may
\* see it.
Acceptable(msg) ==
    IsRound1(msg) => (HasParams(msg) /\ KeyVerified(msg) /\ SignatureVerifies(msg))

\* C5: validation comes before the wrapped state machine: a handle_incoming
\* call on a message that fails validation does not hand the message to the
\* wrapped machine and leaves that machine's state as it was.
C5_RejectedNeverDelivered ==
    [][(last' /= last /\ ~Acceptable(Unwrap(last').msg))
           => /\ ~Unwrap(last').handed
              /\ IsErr(Unwrap(last').res)
              /\ aug_signing'.state_machine = aug_signing.state_machine]_vars

\* A Round1 message of an unverified key was rejected after the wrapped
\* machine had already stored a message.
C5_Witness ==
    /\ IsSome(last)
    /\ ~Acceptable(Unwrap(last).msg)
    /\ ~Unwrap(last).handed
    /\ Unwrap(last).res = UnauthorizedParty
    /\ aug_signing.state_machine.msgs1 /= Some({})

\* C6 (as claimed): once a message has failed validation the machine is in a
\* terminal error state: no later handle_incoming or proceed call changes the
\* wrapped machine, so it makes no progress and produces no output.
C6_NoProgressAfterFailure ==
    [][failed => aug_signing'.state_machine = aug_signing.state_machine]_vars

\* C7: every outgoing Round1 message carries the party's verifying key and its
\* identity signature over the prefixed message to be signed; every outgoing
\* message of another round carries no additional parameters.
C7_OutgoingAugmentation ==
    \A i \in DOMAIN aug_signing.message_queue :
        LET msg == aug_signing.message_queue[i]
        IN  IF IsRound1(msg)
            THEN /\ HasParams(msg)
                 /\ Params(msg).verifying_key
                        = VerifyingKey(aug_signing.identity_provider,
                                       "ECDSA", "Secp256k1", "SEC1")
                 /\ Params(msg).verifying_signature
                        = Signature(DerSig(aug_signing.identity_provider,
                                           MsgPrefix \o aug_signing.message),
                                    "ECDSA", "Secp256k1", "SHA256", "DER")
            ELSE ~HasParams(msg)

\* The queue holds the Round1 message and, behind it, the Round2 message.
C7_Witness ==
    /\ Len(aug_signing.message_queue) = 2
    /\ IsRound1(aug_signing.message_queue[1])
    /\ ~IsRound1(aug_signing.message_queue[2])

\* --------------------------------------------- claims: share recovery

\* C8: in every reachable state of a share recovery, a party's
\* refresh_state_machine is Some only if its identity authentication has
\* terminated successfully; a party whose identity authentication has failed
\* has no key refresh.
C8_RefreshOnlyAfterAuthentication ==
    \A p \in Parties :
        IsSome(share_recovery_quorum[p].refresh_state_machine)
            => share_recovery_quorum[p].init_state_machine.status = "Success"

\* A party has started its key refresh while the identity authentication of
\* another party is still under way.
C8_Witness ==
    \E p, r \in Parties :
        /\ IsSome(share_recovery_quorum[p].refresh_state_machine)
        /\ share_recovery_quorum[p].init_state_machine.status = "Success"
        /\ share_recovery_quorum[r].init_state_machine.status = "AwaitingRound2"
        /\ ~IsSome(share_recovery_quorum[r].refresh_state_machine)

\* C9: every party that has finished a share recovery, the recovering party
\* included, outputs a LocalKey whose public key is the one before recovery.
C9_PublicKeyPreserved ==
    \A p \in Parties :
        LET output == ShareRecoveryQuorum_pick_output(share_recovery_quorum[p])
        IN  IsSome(output) => Unwrap(output).base.y_sum_s = pub_key_init

\* Every party has finished, one of them having entered without a LocalKey,
\* and the recovering party's output carries the public key.
C9_Witness ==
    /\ \A p \in Parties : ShareRecoveryQuorum_is_finished(share_recovery_quorum[p])
    /\ \E p \in Parties :
          /\ share_recovery_quorum[p].init_state_machine.is_initiator
          /\ Unwrap(ShareRecoveryQuorum_pick_output(share_recovery_quorum[p]))
                 .base.y_sum_s = pub_key_init

\* C10: every party that has finished a share recovery, the recovering party
\* included, outputs a LocalKey whose secret share x_i is zero.
C10_SecretShareZeroized ==
    \A p \in Parties :
        LET output == ShareRecoveryQuorum_pick_output(share_recovery_quorum[p])
        IN  IsSome(output) => Unwrap(output).base.x_i = 0

\* Every party has finished and output a LocalKey, and the key refresh of
\* some party that came with its shares holds a refreshed share that is not
\* zero.
C10_Witness ==
    /\ \A p \in Parties :
          IsSome(ShareRecoveryQuorum_pick_output(share_recovery_quorum[p]))
    /\ \E p \in Parties :
          /\ ~share_recovery_quorum[p].init_state_machine.is_initiator
          /\ Unwrap(share_recovery_quorum[p].refresh_state_machine).x_i /= 0
          /\ Unwrap(ShareRecoveryQuorum_pick_output(share_recovery_quorum[p]))
                 .base.x_i = 0

\* C11: every party that has finished a share recovery outputs a LocalKey
\* whose threshold and number of parties are those the ceremony started with:
\* the threshold and n_parties of its machine, which are those of the keygen.
C11_ConfigurationPreserved ==
    \A p \in Parties :
        LET self   == share_recovery_quorum[p]
            output == ShareRecoveryQuorum_pick_output(self)
        IN  IsSome(output) =>
                /\ Unwrap(output).base.t = self.threshold
                /\ Unwrap(output).base.n = self.n_parties
                /\ Unwrap(output).base.t = aug_keys(p).base.t
                /\ Unwrap(output).base.n = aug_keys(p).base.n

\* The recovering party and a party that came with its LocalKey have both
\* output a LocalKey with the threshold and the number of parties of the keygen.
C11_Witness ==
    \E p, r \in Parties :
        /\ share_recovery_quorum[p].init_state_machine.is_initiator
        /\ ~share_recovery_quorum[r].init_state_machine.is_initiator
        /\ \A i \in {p, r} :
              LET output == ShareRecoveryQuorum_pick_output(share_recovery_quorum[i])
              IN  /\ IsSome(output)
                  /\ Unwrap(output).base.t = threshold
                  /\ Unwrap(output).base.n = NParties

C14_ReconstructInvertsSplit ==
    IsSome(call.reconstructed) =>
        /\ \A i \in Parties :
              Unwrap(call.reconstructed)[i] = evaluate(call.poly, i)
        /\ Point(vss_reconstruct(Unwrap(call.reconstructed))) = call.public_key

\* A key generation with a secret key other than zero and a polynomial of
\* full degree: the first party's split wrapped around q (its signing share
\* is the largest scalar and its provider's signature is not zero), the last
\* party's provider is the outsider's, and the parties' shares, which are not
\* all the same, have been reconstructed and interpolate to the secret key.
C14_Witness ==
    /\ IsSome(call.reconstructed)
    /\ call.poly[1] /= 0
    /\ call.poly[threshold + 1] /= 0
    /\ Unwrap(call.shares)[1].signing_share = Secp256k1Order - 1
    /\ sign_message_share(call.providers[1], call.nonces[1][1])[1] /= 0
    /\ call.providers[NParties] = Outsider
    /\ \E i, k \in Parties :
          Unwrap(call.reconstructed)[i] /= Unwrap(call.reconstructed)[k]
    /\ vss_reconstruct(Unwrap(call.reconstructed)) = call.poly[1]

\* The verified parties that have handed in a valid approval of the challenge.
ValidSigners ==
    {id \in Parties : Approval(id, approval_payload(call.challenge)) \in call.submitted}

\* C15: a quorum-approved request succeeds if and only if at least t + 1
\* distinct verified signers have handed in valid approvals: with t of them
\* it fails with InsufficientApprovals, and an approval of a signer already
\* counted does not raise the count.
C15_QuorumIffDistinctApprovals ==
    /\ Len(call.approvals) = Cardinality(ValidSigners)
    /\ quorum_approved_request(call.approvals, call.threshold) = Ok
           <=> Cardinality(ValidSigners) >= call.threshold + 1
    /\ Cardinality(ValidSigners) <= call.threshold
           => quorum_approved_request(call.approvals, call.threshold) = InsufficientApprovals
    /\ call.result = Ok => Cardinality(ValidSigners) >= call.threshold + 1

\* Exactly t + 1 signers have approved, one of them twice: more approvals
\* were handed in than there are signers, and the request succeeds.
C15_Witness ==
    /\ Cardinality(ValidSigners) = call.threshold + 1
    /\ call.submitted = {Approval(id, approval_payload(call.challenge)) : id \in ValidSigners}
    /\ call.n_submitted = call.threshold + 2
    /\ call.result = Ok

\* C16: ShareRecoveryQuorum::new fails with InvalidInput, constructing no
\* machine, exactly when it is given no LocalKey and the explicit party index
\* or the explicit current threshold is missing too; given a LocalKey it
\* constructs a machine.
C16_InvalidInputIffMissing ==
    IsSome(call.result) =>
        LET result == Unwrap(call.result)
        IN  /\ ~result.ok
                  <=> /\ ~IsSome(call.local_key_option)
                      /\ \/ ~IsSome(call.party_index_option)
                         \/ ~IsSome(call.current_threshold_option)
            /\ ~result.ok => result.value = "InvalidInput"
            /\ result.ok
                  => /\ result.value.refresh_state_machine = None
                     /\ result.value.init_state_machine.status = "AwaitingRound1"
            /\ IsSome(call.local_key_option) => result.ok

\* new was called with a party index but with neither a LocalKey nor a
\* current threshold, and failed with InvalidInput.
C16_Witness ==
    /\ IsSome(call.result)
    /\ ~Unwrap(call.result).ok
    /\ ~IsSome(call.local_key_option)
    /\ IsSome(call.party_index_option)
    /\ ~IsSome(call.current_threshold_option)

\* C17: verify_signature returns SchemeMismatch whenever the (algorithm,
\* curve) pair of the verifying key differs from that of the signature,
\* whatever the digest, the encodings and the bytes.
C17_SchemeMismatch ==
    IsSome(call.result) =>
        (<<call.verifying_key.algo, call.verifying_key.curve>>
            /= <<call.signature.algo, call.signature.curve>>
         => Unwrap(call.result) = CryptoErr("SchemeMismatch"))

\* An ECDSA key on Curve25519 met an otherwise supported ECDSA/secp256k1
\* signature that its key pair made over the message: SchemeMismatch.
C17_Witness ==
    /\ call.result = Some(CryptoErr("SchemeMismatch"))
    /\ call.verifying_key = VerifyingKey(1, "ECDSA", "Curve25519", "SEC1")
    /\ call.signature = Signature(DerSig(1, call.msg), "ECDSA", "Secp256k1", "SHA256", "DER")

\* Key and signature are of the one combination verify_signature verifies.
SupportedCombination ==
    /\ <<call.verifying_key.algo, call.verifying_key.curve, call.verifying_key.enc>>
           = <<"ECDSA", "Secp256k1", "SEC1">>
    /\ <<call.signature.algo, call.signature.curve, call.signature.hash, call.signature.enc>>
           = <<"ECDSA", "Secp256k1", "SHA256", "DER">>

SchemesMatch ==
    <<call.verifying_key.algo, call.verifying_key.curve>>
        = <<call.signature.algo, call.signature.curve>>

\* C18 (as claimed): for every combination other than ECDSA/secp256k1/SHA-256
\* with a SEC1 key and a DER signature, with matching schemes of key and
\* signature, verify_signature returns UnsupportedScheme or
\* UnsupportedEncoding.
C18_UnsupportedSchemeOrEncoding ==
    (IsSome(call.result) /\ SchemesMatch /\ ~SupportedCombination)
        => Unwrap(call.result) \in {CryptoErr("UnsupportedScheme"),
                                    CryptoErr("UnsupportedEncoding")}

\* C18 (amended): verify_signature attempts the verification only for
\* ECDSA/secp256k1/SHA-256 with a SEC1 key and a DER signature; for every other
\* combination with matching schemes it returns UnsupportedScheme,
\* UnsupportedDigest (ECDSA/secp256k1 with another digest than SHA-256) or
\* UnsupportedEncoding, and never Ok.
C18_UnsupportedCombination ==
    IsSome(call.result) =>
        LET result == Unwrap(call.result)
        IN  /\ result \in {Ok, CryptoErr("InvalidSignature"), CryptoErr("InvalidVerifyingKey")}
                  => SupportedCombination
            /\ (SchemesMatch /\ ~SupportedCombination)
                  => /\ result \in {CryptoErr("UnsupportedScheme"),
                                     CryptoErr("UnsupportedDigest"),
                                     CryptoErr("UnsupportedEncoding")}
                     /\ result = CryptoErr("UnsupportedDigest")
                           <=> /\ <<call.verifying_key.algo, call.verifying_key.curve>>
                                      = <<"ECDSA", "Secp256k1">>
                               /\ call.signature.hash /= "SHA256"

\* A Keccak-256 signature of key pair 1 over the message, otherwise of the
\* supported combination, met the key of key pair 1: UnsupportedDigest.
C18_Witness ==
    /\ call.result = Some(CryptoErr("UnsupportedDigest"))
    /\ call.verifying_key = VerifyingKey(1, "ECDSA", "Secp256k1", "SEC1")
    /\ call.signature = Signature(DerSig(1, call.msg), "ECDSA", "Secp256k1", "Keccak256", "DER")

\* The messages that the AugmentedSigning of an honest party with index and
\* key pair sender, configured with the receiver's message, puts on its queue
\* at construction.
SentBy(sender) ==
    LET queue == AugmentedSigning_new(sender, sender, HonestParties,
                                      aug_signing.message).message_queue
    IN  {queue[k] : k \in DOMAIN queue}

\* C19: for an honest sender configured with the same message as the receiver
\* and whose verifying key is in the receiver's verified_parties, what the
\* sender's augment_outgoing_message attaches to its Round1 message is
\* accepted by the receiver's pre_handle_incoming, so the message is handed
\* to the wrapped machine.
C19_HonestRound1Accepted ==
    \A sender \in Parties \ {aug_signing.state_machine.idx} :
        Contains(aug_signing.verified_parties, verifying_key(sender)) =>
            \A msg \in SentBy(sender) :
                /\ IsRound1(msg) /\ HasParams(msg)
                /\ pre_handle_incoming(aug_signing, msg) = Ok
                /\ (IsSome(last) /\ Unwrap(last).msg = msg) => Unwrap(last).handed

\* The Round1 message of an honest sender that is in verified_parties has
\* been handled, accepted and stored by the wrapped machine, where the last
\* slot of verified_parties holds another key than its party's.
C19_Witness ==
    /\ IsSome(last)
    /\ \E sender \in Parties \ {aug_signing.state_machine.idx} :
          /\ Unwrap(last).msg \in SentBy(sender)
          /\ Contains(aug_signing.verified_parties, verifying_key(sender))
          /\ sender \in Unwrap(aug_signing.state_machine.msgs1)
    /\ Unwrap(last).handed
    /\ Unwrap(last).res = Ok
    /\ aug_signing.verified_parties /= HonestParties

\* C20: within signing Round1 the order of deliveries from different senders
\* does not matter: for any two Round1 messages of different senders, each
\* message gets the same verdict whether it is handled before or after the
\* other, and the machine is in the same state after both orders.
C20_Round1OrderIndependent ==
    \A m1, m2 \in CeremonyMsgs(aug_signing) :
        (IsRound1(m1) /\ IsRound1(m2) /\ m1.sender /= m2.sender) =>
            LET first1  == handle_incoming(aug_signing, m1)
                then2   == handle_incoming(first1.self, m2)
                first2  == handle_incoming(aug_signing, m2)
                then1   == handle_incoming(first2.self, m1)
            IN  /\ first1.res = then1.res /\ first1.handed = then1.handed
                /\ first2.res = then2.res /\ first2.handed = then2.handed
                /\ then2.self = then1.self

\* Round1 messages of two different senders have been stored, a message was
\* rejected on the way, and the last delivery was accepted.
C20_Witness ==
    /\ IsSome(last)
    /\ IsRound1(Unwrap(last).msg)
    /\ Unwrap(last).handed /\ Unwrap(last).res = Ok
    /\ failed
    /\ IsSome(aug_signing.state_machine.msgs1)
    /\ Cardinality(Unwrap(aug_signing.state_machine.msgs1)) >= 2

\* The ceremony of tests::share_recovery_quorum_works at its start: every
\* party's key is in verified_parties, one party is recovering and every
\* other party holds its LocalKey and its shares.
HonestCeremony ==
    \E recovering \in Parties :
        share_recovery_quorum =
            [i \in Parties |-> simulate_share_recovery_quorum(i, recovering, 0, 0)]

\* Every party has finished with an output and no identity authentication
\* has failed.
AllFinished ==
    \A p \in Parties :
        /\ ShareRecoveryQuorum_is_finished(share_recovery_quorum[p])
        /\ IsSome(ShareRecoveryQuorum_pick_output(share_recovery_quorum[p]))
        /\ share_recovery_quorum[p].init_state_machine.status = "Success"

\* C21: when all parties are honest, every party's key is in
\* verified_parties, exactly one party is recovering and every message is
\* eventually delivered, every party's machine eventually finishes and yields
\* an output, with no error.
C21_RecoveryTerminates == HonestCeremony ~> AllFinished

\* All parties of a ceremony whose parties are all verified and hold their
\* shares have finished with an output.
C21_Witness ==
    /\ AllFinished
    /\ \A p \in Parties :
          /\ share_recovery_quorum[p].verified_parties = verifying_keys(0)
          /\ \/ share_recovery_quorum[p].init_state_machine.is_initiator
             \/ IsSome(share_recovery_quorum[p].signing_share_option)
    /\ Cardinality({p \in Parties :
            share_recovery_quorum[p].init_state_machine.is_initiator}) = 1

\* C22 (as claimed): the initiator flag is the same in both phases. A party
\* is an initiator exactly when it was constructed without a LocalKey, which
\* is the flag its identity authentication was given; whenever a call of
\* init_key_refresh would initialise the key refresh, the flag it computes
\* from local_key_option equals that flag, and a key refresh that has been
\* initialised was initialised as a joining party exactly for an initiator,
\* also after an earlier attempt in which AugmentedKeyRefresh::new failed.
C22_InitiatorFlagConsistent ==
    \A p \in Parties :
        LET self == share_recovery_quorum[p]
        IN  IF IsSome(self.refresh_state_machine)
            THEN ~IsSome(Unwrap(self.refresh_state_machine).local_key_option)
                     = self.init_state_machine.is_initiator
            ELSE ~IsSome(self.local_key_option)
                     = self.init_state_machine.is_initiator

\* C23: init_key_refresh initialises the key refresh at most once. Called on
\* a machine whose refresh_state_machine is Some, it returns Ok and changes
\* nothing (refresh state machine, LocalKey slot and composite queue are as
\* before), and no step of the ceremony replaces a key refresh that has been
\* started by another one.
C23_RefreshInitialisedOnce ==
    [][\A p \in Parties :
          LET self == share_recovery_quorum[p]
              next == share_recovery_quorum'[p]
          IN  IsSome(self.refresh_state_machine) =>
                /\ init_key_refresh(self).res = OkValue(<<>>)
                /\ init_key_refresh(self).self = self
                /\ IsSome(next.refresh_state_machine)
                /\ Unwrap(next.refresh_state_machine).local_key_option
                      = Unwrap(self.refresh_state_machine).local_key_option
                /\ Unwrap(self.refresh_state_machine).received
                      \subseteq Unwrap(next.refresh_state_machine).received
                /\ next.local_key_option = self.local_key_option]_vars

\* A party whose key refresh has been started with its LocalKey has taken
\* another party's refresh message and has queued its own.
C23_Witness ==
    \E p \in Parties :
        LET self == share_recovery_quorum[p]
        IN  /\ IsSome(self.refresh_state_machine)
            /\ IsSome(Unwrap(self.refresh_state_machine).local_key_option)
            /\ Unwrap(self.refresh_state_machine).received /= {}
            /\ self.local_key_option = None
            /\ \E k \in DOMAIN self.message_queue :
                  self.message_queue[k].body.kind = "Refresh"

\* C24 (as claimed): the LocalKey is handed over exactly once. Once the key
\* refresh has been initialised, local_key_option is None; and when a call
\* of init_key_refresh (made once identity authentication has succeeded)
\* returns an error, the machine, local_key_option included, is as it was
\* before the call.
C24_LocalKeyHandedOverOnce ==
    \A p \in Parties :
        LET self == share_recovery_quorum[p]
            done == init_key_refresh(self)
        IN  /\ IsSome(self.refresh_state_machine) => self.local_key_option = None
            /\ (IdentityAuthentication_is_finished(self.init_state_machine)
                    /\ ~done.res.ok) => done.self = self

\* C25: ShareRecoveryQuorum::new takes the party index and the threshold from
\* the LocalKey whenever one is supplied, whatever the explicit
\* party_index_option and current_threshold_option are, and uses the explicit
\* ones only when no LocalKey is supplied; the identity authentication is
\* constructed with the same index.
C25_LocalKeyTakesPrecedence ==
    (IsSome(call.result) /\ Unwrap(call.result).ok) =>
        LET self == Unwrap(call.result).value
        IN  IF IsSome(call.local_key_option)
            THEN /\ self.idx = Unwrap(call.local_key_option).i
                 /\ self.threshold = Unwrap(call.local_key_option).t
                 /\ self.init_state_machine.idx = Unwrap(call.local_key_option).i
            ELSE /\ self.idx = Unwrap(call.party_index_option)
                 /\ self.threshold = Unwrap(call.current_threshold_option)
                 /\ self.init_state_machine.idx = Unwrap(call.party_index_option)

\* A machine constructed from a LocalKey together with an explicit index and
\* an explicit threshold that both differ from the LocalKey's.
C25_Witness ==
    /\ IsSome(call.result)
    /\ Unwrap(call.result).ok
    /\ IsSome(call.local_key_option)
    /\ IsSome(call.party_index_option)
    /\ IsSome(call.current_threshold_option)
    /\ Unwrap(call.party_index_option) /= Unwrap(call.local_key_option).i
    /\ Unwrap(call.current_threshold_option) /= Unwrap(call.local_key_option).t
    /\ Unwrap(call.result).value.idx = Unwrap(call.local_key_option).i

\* What verify_signature returns for the parameters a message carries and the
\* receiver's prefixed message.
CarriedVerdict(msg) ==
    verify_signature(Params(msg).verifying_key,
                     prefix_message_bytes(aug_signing.message),
                     Params(msg).verifying_signature)

\* C26: pre_handle_incoming checks membership before signature validity. A
\* Round1 message whose carried key is not in verified_parties is rejected
\* with UnauthorizedParty also when its signature is invalid or of an
\* unsupported scheme, and an error of the signature verification is returned
\* only for a key that is in verified_parties.
C26_MembershipBeforeSignature ==
    IsSome(last) =>
        LET c == Unwrap(last)
        IN  (IsRound1(c.msg) /\ HasParams(c.msg)) =>
                /\ (~KeyVerified(c.msg) /\ IsErr(CarriedVerdict(c.msg)))
                        => c.res = UnauthorizedParty
                /\ c.res.tag = "Crypto"
                        => KeyVerified(c.msg) /\ c.res = CarriedVerdict(c.msg)
                /\ c.res.tag = "UnauthorizedParty" <=> ~KeyVerified(c.msg)

\* A Round1 message with an unlisted key and a signature of an unsupported
\* digest was rejected as unauthorized.
C26_Witness ==
    /\ IsSome(last)
    /\ IsRound1(Unwrap(last).msg)
    /\ HasParams(Unwrap(last).msg)
    /\ ~KeyVerified(Unwrap(last).msg)
    /\ CarriedVerdict(Unwrap(last).msg) = CryptoErr("UnsupportedDigest")
    /\ Unwrap(last).res = UnauthorizedParty

\* The checks of a call of verify_signature in the order of their precedence:
\* whether each one fails on the call's arguments, and the error it stands for.
Precedence ==
    LET key == call.verifying_key
        sg  == call.signature
    IN  << <<<<key.algo, key.curve>> /= <<sg.algo, sg.curve>>, "SchemeMismatch">>,
           <<<<key.algo, key.curve>> /= <<"ECDSA", "Secp256k1">>, "UnsupportedScheme">>,
           <<sg.hash /= "SHA256", "UnsupportedDigest">>,
           <<<<key.enc, sg.enc>> /= <<"SEC1", "DER">>, "UnsupportedEncoding">>,
           <<~sg.sig.der, "InvalidSignature">>,
           <<key.key = 0, "InvalidVerifyingKey">>,
           <<~(sg.sig.signer = key.key /\ sg.sig.payload = call.msg),
             "InvalidSignature">> >>

Failing == {i \in DOMAIN Precedence : Precedence[i][1]}

\* C27: verify_signature reports the error of the first failing check in the
\* order SchemeMismatch, UnsupportedScheme, UnsupportedDigest,
\* UnsupportedEncoding, InvalidSignature (not well-formed DER),
\* InvalidVerifyingKey (not valid SEC1), InvalidSignature (verification
\* failed), and Ok only when no check fails.
C27_ErrorPrecedence ==
    IsSome(call.result) =>
        IF Failing = {}
        THEN Unwrap(call.result) = Ok
        ELSE \E i \in Failing :
                /\ \A k \in Failing : i <= k
                /\ Unwrap(call.result) = CryptoErr(Precedence[i][2])

\* verify_signature was called with a signature that is not well-formed DER
\* and a key that is not valid SEC1, of the supported scheme, and reported
\* the signature.
C27_Witness ==
    /\ IsSome(call.result)
    /\ {5, 6} \subseteq Failing
    /\ \A i \in Failing : i >= 5
    /\ Unwrap(call.result) = CryptoErr("InvalidSignature")

\* C28: for a message of a round other than Round1, pre_handle_incoming
\* returns Ok whatever the additional parameters are: absent, valid, signed by
\* an unverified key or carrying an invalid signature.
C28_OtherRoundsAccepted ==
    IsSome(last) =>
        (~IsRound1(Unwrap(last).msg) => Unwrap(last).res = Ok)

\* A Round2 message that carries an unlisted key and a signature that does
\* not verify was accepted.
C28_Witness ==
    /\ IsSome(last)
    /\ Unwrap(last).msg.body.base.round = "Round2"
    /\ HasParams(Unwrap(last).msg)
    /\ ~KeyVerified(Unwrap(last).msg)
    /\ IsErr(CarriedVerdict(Unwrap(last).msg))
    /\ Unwrap(last).res = Ok

\* C29: the verdict of pre_handle_incoming on a Round1 message that carries
\* additional parameters depends only on the parameters, the receiver's
\* verified_parties and the receiver's message: the same parameters under any
\* other sender index and Round1 body get the verdict of the message that was
\* handled.
C29_VerdictIndependentOfSender ==
    IsSome(last) =>
        LET c == Unwrap(last)
        IN  (IsRound1(c.msg) /\ HasParams(c.msg)) =>
                \A sender \in Parties, data \in Parties :
                    pre_handle_incoming(
                        aug_signing,
                        Msg(sender, Base("Round1", data), c.msg.body.extra)) = c.res

\* A Round1 message was accepted whose carried key is in verified_parties
\* but is not the key listed at the sender's index.
C29_Witness ==
    /\ IsSome(last)
    /\ IsRound1(Unwrap(last).msg)
    /\ HasParams(Unwrap(last).msg)
    /\ Unwrap(last).res = Ok
    /\ aug_signing.verified_parties[Unwrap(last).msg.sender]
          /= Params(Unwrap(last).msg).verifying_key

====
